---- MODULE Spec2Model ----
(***************************************************************************)
(* A model of SimpleVector<Type> (simple_vector.h) over ArrayPtr<Type>     *)
(* (array_ptr.h), with Type = int.                                         *)
(*                                                                         *)
(* The heap is a finite set of block addresses; a block is either free or  *)
(* live with a fixed number of cells.  A SimpleVector object is the record *)
(* [items, size, capacity] of its three members, items being the address   *)
(* held by its ArrayPtr (Null when it owns nothing).  C++ indices are      *)
(* 0-based; cell i of a block is cells[i + 1].  An iterator is a block     *)
(* address and an offset from the start of that block.                     *)
(***************************************************************************)
EXTENDS Integers, Sequences, FiniteSets, TLC

\* ---- bounds ----
MaxCap == 4         \* largest capacity explored with one vector
MaxVal == 1         \* element values are 0..MaxVal with one vector
MaxPairCap == 2     \* largest capacity explored with two vectors
MaxBlocks == 4      \* heap addresses
MaxPtrLen == 2      \* largest block allocated through a bare ArrayPtr

\* ---- program constants ----
Default == 0        \* Type() for Type = int
Null == 0           \* nullptr

Blocks == 1..MaxBlocks
Values == 0..MaxVal
\* with two vectors: Type() and one other value
PairValues == {Default, Default + 1}
Vecs == {"a", "b"}
Ptrs == {"p", "q"}

\* heap, vec, alive: the blocks, the SimpleVector objects and their lifetimes;
\* last, tally: the record of the last call and the count of elements;
\* own: the bare ArrayPtr objects, the raw pointers in the caller's hands and
\* the way each address was last deallocated
VARIABLES heap, vec, alive, last, tally, own

vars == <<heap, vec, alive, last, tally, own>>

\* the number of elements of a sequence given as a function on 1..n
Length(s) == Cardinality(DOMAIN s)

\* ---- heap ----
FreeBlock == [live |-> FALSE, cells |-> <<>>]

EmptyHeap == [p \in Blocks |-> FreeBlock]

\* new Type[size]: some address that is not live
Alloc(h) == CHOOSE p \in Blocks : ~h[p].live /\ \A q \in Blocks : q < p => h[q].live

\* ---- ArrayPtr ----
\* explicit ArrayPtr(size_t size)
ArrayPtrSize(h, size) ==
    IF size = 0
    THEN [heap |-> h, ptr |-> Null]
    ELSE LET p == Alloc(h)
         IN [heap |-> [h EXCEPT ![p] = [live |-> TRUE, cells |-> [i \in 1..size |-> Default]]],
             ptr |-> p]

\* ArrayPtr(size_t size, const Type& value) and ArrayPtr(size_t size, Type&& value)
ArrayPtrFill(h, size, value) ==
    LET r == ArrayPtrSize(h, size)
    IN IF size = 0
       THEN r
       ELSE [heap |-> [r.heap EXCEPT ![r.ptr].cells = [i \in 1..size |-> value]],
             ptr |-> r.ptr]

\* ~ArrayPtr()
ArrayPtrDtor(h, ptr) == IF ptr = Null THEN h ELSE [h EXCEPT ![ptr] = FreeBlock]

\* ArrayPtr(ArrayPtr&& other)
ArrayPtrMove(other) == [ptr |-> other, o |-> Null]

\* delete raw_ptr_ in operator=(ArrayPtr&&), on a pointer that new Type[size]
\* returned: undefined unless the pointer is null.  freed tells what the build
\* makes of it: the block is given back, or the run is aborted at the
\* mismatch
ScalarDelete(h, ptr, freed) ==
    IF ptr = Null
    THEN [heap |-> h, how |-> "", aborted |-> FALSE]
    ELSE IF freed
    THEN [heap |-> [h EXCEPT ![ptr] = FreeBlock], how |-> "delete", aborted |-> FALSE]
    ELSE [heap |-> h, how |-> "", aborted |-> TRUE]

\* operator=(ArrayPtr&& other); self is (this == &other)
ArrayPtrMoveAssign(h, ptr, other, self, freed) ==
    IF ~self
    THEN LET d == ScalarDelete(h, ptr, freed)
         IN IF d.aborted
            THEN [heap |-> d.heap, ptr |-> ptr, o |-> other, how |-> d.how, aborted |-> TRUE]
            ELSE [heap |-> d.heap, ptr |-> other, o |-> Null, how |-> d.how, aborted |-> FALSE]
    ELSE [heap |-> h, ptr |-> ptr, o |-> other, how |-> "", aborted |-> FALSE]

\* Release()
Release(ptr) == [ret |-> ptr, ptr |-> Null]

\* ArrayPtr::swap(ArrayPtr& other)
ArrayPtrSwap(ptr, other) == [ptr |-> other, o |-> ptr]

\* ---- <algorithm> on the cells of one block, 0-based positions ----
RECURSIVE Move(_, _, _, _)
Move(cells, first, lst, d_first) ==
    IF first = lst
    THEN cells
    ELSE Move([cells EXCEPT ![d_first + 1] = cells[first + 1]], first + 1, lst, d_first + 1)

\* a shift toward the end done front to back, each element overwriting the
\* next before it is read
MoveBackwardFrontToBack(cells, first, lst, d_last) ==
    Move(cells, first, lst, d_last - (lst - first))

RECURSIVE MoveBackward(_, _, _, _)
MoveBackward(cells, first, lst, d_last) ==
    IF first = lst
    THEN cells
    ELSE MoveBackward([cells EXCEPT ![d_last] = cells[lst]], first, lst - 1, d_last - 1)

\* ---- SimpleVector ----
EmptyVector == [items |-> Null, size |-> 0, capacity |-> 0]

\* the elements at [begin(), end())
Contents(h, v) == [i \in 1..v.size |-> h[v.items].cells[i]]

Begin(v) == [blk |-> v.items, off |-> 0]

End(v) == [blk |-> v.items, off |-> v.size]

\* a reallocation that leaves the last element behind
IncreaseCapacityDropsLast(h, v, new_capacity) ==
    LET r == ArrayPtrFill(h, new_capacity, Default)
        moved == IF v.size = 0
                 THEN r.heap
                 ELSE [r.heap EXCEPT ![r.ptr].cells =
                          [i \in 1..new_capacity |->
                              IF i < v.size THEN h[v.items].cells[i] ELSE @[i]]]
    IN [heap |-> ArrayPtrDtor(moved, v.items),
        v |-> [items |-> r.ptr, size |-> v.size, capacity |-> new_capacity]]

\* a reallocation that carries over every slot of the old block
IncreaseCapacityCopiesAll(h, v, new_capacity) ==
    LET r == ArrayPtrFill(h, new_capacity, Default)
        moved == IF v.capacity = 0
                 THEN r.heap
                 ELSE [r.heap EXCEPT ![r.ptr].cells =
                          [i \in 1..new_capacity |->
                              IF i <= v.capacity THEN h[v.items].cells[i] ELSE @[i]]]
    IN [heap |-> ArrayPtrDtor(moved, v.items),
        v |-> [items |-> r.ptr, size |-> v.size, capacity |-> new_capacity]]

IncreaseCapacity(h, v, new_capacity) ==
    LET r == ArrayPtrFill(h, new_capacity, Default)
        moved == IF v.size = 0
                 THEN r.heap
                 ELSE [r.heap EXCEPT ![r.ptr].cells =
                          [i \in 1..new_capacity |->
                              IF i <= v.size THEN h[v.items].cells[i] ELSE @[i]]]
    IN [heap |-> ArrayPtrDtor(moved, v.items),
        v |-> [items |-> r.ptr, size |-> v.size, capacity |-> new_capacity]]

\* growth by one slot instead of doubling
GrownCapacityByOne(capacity) == capacity + 1

GrownCapacity(capacity) == IF capacity = 0 THEN 1 ELSE 2 * capacity

IsSizeEqualsCapacity(h, v) ==
    IF v.size = v.capacity
    THEN IncreaseCapacity(h, v, GrownCapacity(v.capacity))
    ELSE [heap |-> h, v |-> v]

\* SimpleVector()
CtorDefault(h) == [heap |-> h, v |-> EmptyVector]

\* SimpleVector(size_t size)
CtorSize(h, size) ==
    LET r == ArrayPtrSize(h, size)
    IN [heap |-> r.heap, v |-> [items |-> r.ptr, size |-> size, capacity |-> size]]

\* SimpleVector(size_t size, const Type& value)
CtorFill(h, size, value) ==
    LET r == ArrayPtrFill(h, size, value)
    IN [heap |-> r.heap, v |-> [items |-> r.ptr, size |-> size, capacity |-> size]]

\* SimpleVector(const ReserveProxyObj& capacity)
CtorReserve(h, capacity_to_reserve) == IncreaseCapacity(h, EmptyVector, capacity_to_reserve)

\* ~SimpleVector()
Dtor(h, v) == ArrayPtrDtor(h, v.items)

swap(h, v, other) ==
    [heap |-> h,
     v |-> [items |-> other.items, size |-> other.size, capacity |-> other.capacity],
     o |-> [items |-> v.items, size |-> v.size, capacity |-> v.capacity]]

\* CopyAndSwap(other), other given by its elements [other.begin(), other.end())
CopyAndSwap(h, v, elems) ==
    LET c == CtorSize(h, Length(elems))
        copied == IF Length(elems) = 0
                  THEN c.heap
                  ELSE [c.heap EXCEPT ![c.v.items].cells = elems]
        s == swap(copied, v, c.v)
    IN [heap |-> Dtor(s.heap, s.o), v |-> s.v]

\* a copy that takes the address of the source's block
CtorCopyShallow(h, other) == [heap |-> h, v |-> other]

\* a copy that fills the block of other.size_ slots itself and keeps the
\* capacity_ it took from the source
CtorCopyKeepsCapacity(h, other) ==
    LET r == ArrayPtrSize(h, other.size)
    IN [heap |-> IF other.size = 0
                 THEN r.heap
                 ELSE [r.heap EXCEPT ![r.ptr].cells = Contents(h, other)],
        v |-> [items |-> r.ptr, size |-> other.size, capacity |-> other.capacity]]

\* SimpleVector(const SimpleVector& other)
CtorCopy(h, other) ==
    LET r == ArrayPtrSize(h, other.size)
        this == [items |-> r.ptr, size |-> other.size, capacity |-> other.capacity]
    IN CopyAndSwap(r.heap, this, Contents(h, other))

\* SimpleVector(std::initializer_list<Type> init)
CtorList(h, init) == CopyAndSwap(h, EmptyVector, init)

\* a move that leaves the size and capacity of the source as they were
CtorMoveKeepsFields(h, other) ==
    [heap |-> h,
     v |-> [items |-> other.items, size |-> other.size, capacity |-> other.capacity],
     o |-> [items |-> Null, size |-> other.size, capacity |-> other.capacity]]

\* SimpleVector(SimpleVector&& other)
CtorMove(h, other) ==
    [heap |-> h,
     v |-> [items |-> other.items, size |-> other.size, capacity |-> other.capacity],
     o |-> [items |-> Null, size |-> 0, capacity |-> 0]]

\* a Reserve that grows to no less than twice the capacity
ReserveDoubling(h, v, capacity) ==
    IF v.capacity < capacity
    THEN IncreaseCapacity(h, v, IF capacity < 2 * v.capacity THEN 2 * v.capacity ELSE capacity)
    ELSE [heap |-> h, v |-> v]

Reserve(h, v, capacity) ==
    IF v.capacity < capacity
    THEN IncreaseCapacity(h, v, capacity)
    ELSE [heap |-> h, v |-> v]

PushBack(h, v, item) ==
    LET g == IsSizeEqualsCapacity(h, v)
    IN [heap |-> [g.heap EXCEPT ![g.v.items].cells[g.v.size + 1] = item],
        v |-> [g.v EXCEPT !.size = @ + 1]]

Insert(h, v, pos_index, value) ==
    LET g == IsSizeEqualsCapacity(h, v)
        cells == g.heap[g.v.items].cells
        shifted == MoveBackward(cells, pos_index, g.v.size, g.v.size + 1)
    IN [heap |-> [g.heap EXCEPT ![g.v.items].cells = [shifted EXCEPT ![pos_index + 1] = value]],
        v |-> [g.v EXCEPT !.size = @ + 1],
        it |-> [blk |-> g.v.items, off |-> pos_index]]

\* a PopBack without the test for emptiness
PopBackUnguarded(h, v) == [heap |-> h, v |-> [v EXCEPT !.size = @ - 1]]

PopBack(h, v) ==
    IF v.size > 0
    THEN [heap |-> h, v |-> [v EXCEPT !.size = @ - 1]]
    ELSE [heap |-> h, v |-> v]

\* an Erase that shifts from pos instead of from pos + 1
EraseShiftFromPos(h, v, pos_index) ==
    IF v.size > 0
    THEN [heap |-> [h EXCEPT ![v.items].cells = Move(@, pos_index, v.size, pos_index)],
          v |-> [v EXCEPT !.size = @ - 1],
          it |-> [blk |-> v.items, off |-> pos_index]]
    ELSE [heap |-> h, v |-> v, it |-> [blk |-> v.items, off |-> pos_index]]

\* an Erase that closes the gap and leaves the size as it was
EraseKeepsSize(h, v, pos_index) ==
    IF v.size > 0
    THEN [heap |-> [h EXCEPT ![v.items].cells = Move(@, pos_index + 1, v.size, pos_index)],
          v |-> v,
          it |-> [blk |-> v.items, off |-> pos_index]]
    ELSE [heap |-> h, v |-> v, it |-> [blk |-> v.items, off |-> pos_index]]

\* an Erase whose test for emptiness covers the shift only
EraseAlwaysDecrements(h, v, pos_index) ==
    [heap |-> IF v.size > 0
              THEN [h EXCEPT ![v.items].cells = Move(@, pos_index + 1, v.size, pos_index)]
              ELSE h,
     v |-> [v EXCEPT !.size = @ - 1],
     it |-> [blk |-> v.items, off |-> pos_index]]

Erase(h, v, pos_index) ==
    IF v.size > 0
    THEN [heap |-> [h EXCEPT ![v.items].cells = Move(@, pos_index + 1, v.size, pos_index)],
          v |-> [v EXCEPT !.size = @ - 1],
          it |-> [blk |-> v.items, off |-> pos_index]]
    ELSE [heap |-> h, v |-> v, it |-> [blk |-> v.items, off |-> pos_index]]

\* a Clear that gives the block back
ClearReleases(h, v) == [heap |-> ArrayPtrDtor(h, v.items), v |-> EmptyVector]

Clear(h, v) == [heap |-> h, v |-> [v EXCEPT !.size = 0]]

Max(x, y) == IF x < y THEN y ELSE x

\* a Resize that leaves the slots it exposes within the capacity as they are
ResizeNoFill(h, v, new_size) ==
    LET r == IF new_size > v.capacity
             THEN IncreaseCapacity(h, v, Max(new_size, v.capacity * 2))
             ELSE [heap |-> h, v |-> v]
    IN [heap |-> r.heap, v |-> [r.v EXCEPT !.size = new_size]]

\* a Resize that grows to the new size and no further
ResizeExactGrowth(h, v, new_size) ==
    LET r == IF new_size > v.capacity
             THEN IncreaseCapacity(h, v, new_size)
             ELSE IF new_size > v.size
                  THEN [heap |-> [h EXCEPT ![v.items].cells =
                                     [i \in DOMAIN @ |->
                                         IF i > v.size /\ i <= new_size THEN Default ELSE @[i]]],
                        v |-> v]
                  ELSE [heap |-> h, v |-> v]
    IN [heap |-> r.heap, v |-> [r.v EXCEPT !.size = new_size]]

Resize(h, v, new_size) ==
    LET r == IF new_size > v.capacity
             THEN IncreaseCapacity(h, v, Max(new_size, v.capacity * 2))
             ELSE IF new_size > v.size
                  THEN [heap |-> [h EXCEPT ![v.items].cells =
                                     [i \in DOMAIN @ |->
                                         IF i > v.size /\ i <= new_size THEN Default ELSE @[i]]],
                        v |-> v]
                  ELSE [heap |-> h, v |-> v]
    IN [heap |-> r.heap, v |-> [r.v EXCEPT !.size = new_size]]

\* an At that tests index > size
AtOffByOne(h, v, index) ==
    IF index > v.size
    THEN [threw |-> TRUE, ret |-> -1]
    ELSE [threw |-> FALSE, ret |-> IF index < v.size THEN h[v.items].cells[index + 1] ELSE Default]

\* At(index): threw is the std::out_of_range, ret the element referred to
At(h, v, index) ==
    IF index >= v.size
    THEN [threw |-> TRUE, ret |-> -1]
    ELSE [threw |-> FALSE, ret |-> h[v.items].cells[index + 1]]

\* operator[](index) used to write an element
SetItem(h, v, index, value) ==
    [heap |-> [h EXCEPT ![v.items].cells[index + 1] = value], v |-> v]

\* operator=(const SimpleVector& rhs); self is (this == &rhs)
CopyAssign(h, v, rhs, self) ==
    IF ~self
    THEN LET temp == CtorCopy(h, rhs)
             s == swap(temp.heap, v, temp.v)
         IN [heap |-> Dtor(s.heap, s.o), v |-> s.v, o |-> rhs]
    ELSE [heap |-> h, v |-> v, o |-> rhs]

\* a move-assignment without the test for self-assignment
MoveAssignUnguarded(h, v, other, self) ==
    LET c == Clear(h, v)
        t == CtorMove(c.heap, IF self THEN c.v ELSE other)
        s == swap(t.heap, IF self THEN t.o ELSE c.v, t.v)
    IN [heap |-> Dtor(s.heap, s.o), v |-> s.v, o |-> IF self THEN s.v ELSE t.o]

\* operator=(SimpleVector&& other); self is (this == &other)
MoveAssign(h, v, other, self) ==
    IF ~self
    THEN LET c == Clear(h, v)
             t == CtorMove(c.heap, other)
             s == swap(t.heap, c.v, t.v)
         IN [heap |-> Dtor(s.heap, s.o), v |-> s.v, o |-> t.o]
    ELSE [heap |-> h, v |-> v, o |-> other]

\* ---- the calls when new Type[size] throws std::bad_alloc: the state at the
\* ---- point where the exception leaves the call (out = "bad_alloc") or
\* ---- reaches a noexcept function and std::terminate is called
\* ---- (out = "terminate"); out = "" when the call allocates nothing ----
NoAlloc(h, v) == [heap |-> h, v |-> v, out |-> ""]

\* new_items is built by ArrayPtr(size_t, Type&&), which is noexcept and
\* delegates to ArrayPtr(size_t), where the allocation is
IncreaseCapacityBadAlloc(h, v, new_capacity) ==
    IF new_capacity = 0
    THEN NoAlloc(h, v)
    ELSE [heap |-> h, v |-> v, out |-> "terminate"]

IsSizeEqualsCapacityBadAlloc(h, v) ==
    IF v.size = v.capacity
    THEN IncreaseCapacityBadAlloc(h, v, GrownCapacity(v.capacity))
    ELSE NoAlloc(h, v)

ReserveBadAlloc(h, v, capacity) ==
    IF v.capacity < capacity
    THEN IncreaseCapacityBadAlloc(h, v, capacity)
    ELSE NoAlloc(h, v)

PushBackBadAlloc(h, v, item) == IsSizeEqualsCapacityBadAlloc(h, v)

InsertBadAlloc(h, v, pos_index, value) == IsSizeEqualsCapacityBadAlloc(h, v)

ResizeBadAlloc(h, v, new_size) ==
    IF new_size > v.capacity
    THEN IncreaseCapacityBadAlloc(h, v, Max(new_size, v.capacity * 2))
    ELSE NoAlloc(h, v)

\* SimpleVector(const SimpleVector& other) when its k-th allocation throws:
\* the first is items_(other.size_), the second is c(other.size()) in
\* CopyAndSwap, after which items_ is destroyed as the exception unwinds
CtorCopyBadAlloc(h, other, k) ==
    IF other.size = 0
    THEN [heap |-> h, out |-> ""]
    ELSE IF k = 1
    THEN [heap |-> h, out |-> "bad_alloc"]
    ELSE LET r == ArrayPtrSize(h, other.size)
         IN [heap |-> ArrayPtrDtor(r.heap, r.ptr), out |-> "bad_alloc"]

\* a copy-assignment that empties the target before it builds the copy
CopyAssignBadAllocCleared(h, v, rhs, self, k) ==
    IF ~self
    THEN LET c == Clear(h, v)
             temp == CtorCopyBadAlloc(c.heap, rhs, k)
         IN [heap |-> temp.heap, v |-> c.v, out |-> temp.out]
    ELSE NoAlloc(h, v)

\* operator=(const SimpleVector& rhs) when the k-th allocation of temp throws
CopyAssignBadAlloc(h, v, rhs, self, k) ==
    IF ~self
    THEN LET temp == CtorCopyBadAlloc(h, rhs, k)
         IN [heap |-> temp.heap, v |-> v, out |-> temp.out]
    ELSE NoAlloc(h, v)

\* ---- comparison operators; i is the number of elements already passed ----
\* std::equal(first1, last1, first2, last2), the loop over the elements
RECURSIVE EqualFrom(_, _, _, _)
EqualFrom(h, lhs, rhs, i) ==
    IF i = lhs.size
    THEN TRUE
    ELSE IF h[lhs.items].cells[i + 1] # h[rhs.items].cells[i + 1]
         THEN FALSE
         ELSE EqualFrom(h, lhs, rhs, i + 1)

\* an operator== that compares as far as the shorter vector goes
EqualUpToShorter(h, lhs, rhs) ==
    \A i \in 1..(IF lhs.size < rhs.size THEN lhs.size ELSE rhs.size) :
        h[lhs.items].cells[i] = h[rhs.items].cells[i]

\* operator==: std::equal on random-access ranges compares the lengths first
Equal(h, lhs, rhs) ==
    IF lhs.size # rhs.size THEN FALSE ELSE EqualFrom(h, lhs, rhs, 0)

\* std::lexicographical_compare(first1, last1, first2, last2)
RECURSIVE LexicographicalCompare(_, _, _, _)
LexicographicalCompare(h, lhs, rhs, i) ==
    IF i # lhs.size /\ i # rhs.size
    THEN IF h[lhs.items].cells[i + 1] < h[rhs.items].cells[i + 1]
         THEN TRUE
         ELSE IF h[rhs.items].cells[i + 1] < h[lhs.items].cells[i + 1]
              THEN FALSE
              ELSE LexicographicalCompare(h, lhs, rhs, i + 1)
    ELSE i = lhs.size /\ i # rhs.size

\* operator<
Less(h, lhs, rhs) == LexicographicalCompare(h, lhs, rhs, 0)

\* operator!=
NotEqual(h, lhs, rhs) == ~Equal(h, lhs, rhs)

\* operator<=
LessEqual(h, lhs, rhs) == ~Less(h, rhs, lhs)

\* operator>
Greater(h, lhs, rhs) == Less(h, rhs, lhs)

\* operator>=
GreaterEqual(h, lhs, rhs) == ~Less(h, lhs, rhs)

\* ---- the record of the last call: its arguments, its results, the objects
\* ---- it was applied to as they were before the call, and whether each
\* ---- object's items_ holds the address it held before the call ----
NoIt == [blk |-> -1, off |-> -1]

Snapshot(h, v) ==
    [size |-> v.size, capacity |-> v.capacity,
     cells |-> IF v.items = Null THEN <<>> ELSE h[v.items].cells]

NoSnap == [size |-> 0, capacity |-> 0, cells |-> <<>>]

\* the results of the six comparison operators
NoCmp == [eq |-> FALSE, ne |-> FALSE, lt |-> FALSE, le |-> FALSE, gt |-> FALSE, ge |-> FALSE]

NoCall ==
    [op |-> "", tgt |-> "", src |-> "", idx |-> -1, val |-> -1, n |-> -1,
     it |-> NoIt, ret |-> -1, threw |-> FALSE, cmp |-> NoCmp,
     pre |-> [z \in Vecs |-> NoSnap], kept |-> [z \in Vecs |-> TRUE], out |-> ""]

\* a call of op on the single object x
Call1(op, x) ==
    [NoCall EXCEPT !.op = op, !.tgt = x, !.pre = [z \in Vecs |-> Snapshot(heap, vec[z])]]

\* a call of op on x with the second object y
Call2(op, x, y) == [Call1(op, x) EXCEPT !.src = y]

\* ---- addresses carry no meaning beyond identity: after every call they are
\* ---- renamed so that the block of "a" comes first, the block of "b" next,
\* ---- then any other live block, then the free addresses ----
Key(h, vs, p) ==
    (IF ~h[p].live THEN 3
     ELSE IF vs["a"].items = p THEN 0
     ELSE IF vs["b"].items = p THEN 1
     ELSE 2) * (MaxBlocks + 1) + p

\* the renaming in general
Ranked(h, vs) ==
    LET new == [p \in Blocks |->
                   Cardinality({q \in Blocks : Key(h, vs, q) <= Key(h, vs, p)})]
        old == [n \in Blocks |-> CHOOSE p \in Blocks : new[p] = n]
    IN [heap |-> [n \in Blocks |-> h[old[n]]],
        a |-> IF vs["a"].items = Null THEN Null ELSE new[vs["a"].items],
        b |-> IF vs["b"].items = Null THEN Null ELSE new[vs["b"].items]]

\* the renaming when every live block is the block of "a" or of "b"
Owned(h, vs) ==
    LET pa == vs["a"].items
        pb == vs["b"].items
        na == IF pa = Null THEN Null ELSE 1
        nb == IF pb = Null THEN Null ELSE IF pb = pa THEN 1 ELSE IF pa = Null THEN 1 ELSE 2
    IN [heap |-> [n \in Blocks |->
                     IF n = na THEN h[pa] ELSE IF n = nb THEN h[pb] ELSE FreeBlock],
        a |-> na,
        b |-> nb]

\* tally[x] counts the elements put into x less the elements taken out of it,
\* as long as x was empty at first and only PushBack, Insert, PopBack, Erase
\* and Clear have changed it; tally[x].on is FALSE when that is not so
NoTally == [on |-> FALSE, n |-> 0]

Tallied(l) ==
    [z \in Vecs |->
        IF ~tally[z].on \/ l.op \in {"Reserve", "At", "SetItem", "Compare"}
        THEN tally[z]
        ELSE IF z = l.tgt /\ l.op \in {"PushBack", "Insert"}
        THEN [tally[z] EXCEPT !.n = @ + 1]
        ELSE IF z = l.tgt /\ l.op \in {"PopBack", "Erase"}
        THEN [tally[z] EXCEPT !.n = IF @ > 0 THEN @ - 1 ELSE @]
        ELSE IF z = l.tgt /\ l.op = "Clear"
        THEN [tally[z] EXCEPT !.n = 0]
        ELSE IF z \in {l.tgt, l.src}
        THEN NoTally
        ELSE tally[z]]

\* no bare ArrayPtr, no raw pointer in the caller's hands
NoPtrs ==
    [raw_ptr |-> [o \in Ptrs |-> Null], alive |-> [o \in Ptrs |-> FALSE], held |-> {},
     how |-> [b \in Blocks |-> ""], aborted |-> FALSE]

\* the state after a call that left heap h, objects vs and the record l; no
\* call is made once std::terminate has been called
Settle(h, vs, l) ==
    last.out # "terminate" /\
    LET c == IF \A p \in Blocks : h[p].live => p \in {vs["a"].items, vs["b"].items}
             THEN Owned(h, vs)
             ELSE Ranked(h, vs)
    IN /\ heap' = c.heap
       /\ vec' = [a |-> [vs["a"] EXCEPT !.items = c.a], b |-> [vs["b"] EXCEPT !.items = c.b]]
       /\ last' = [l EXCEPT !.it.blk = IF @ = -1 THEN -1
                                       ELSE IF @ = vs["a"].items THEN c.a
                                       ELSE IF @ = vs["b"].items THEN c.b
                                       ELSE @,
                      !.kept = [z \in Vecs |-> vs[z].items = vec[z].items]]
       /\ tally' = Tallied(l)
       /\ UNCHANGED own

\* the objects after a call on x (this) and y (the argument) that returned r
Both(x, y, r) == [z \in Vecs |-> IF z = x THEN r.v ELSE IF z = y THEN r.o ELSE vec[z]]

\* ---- calls on a live object ----
CallReserve(x, capacity) ==
    /\ alive[x]
    /\ LET r == Reserve(heap, vec[x], capacity)
       IN Settle(r.heap, [vec EXCEPT ![x] = r.v], [Call1("Reserve", x) EXCEPT !.n = capacity])
    /\ UNCHANGED alive

CallPushBack(x, item) ==
    /\ alive[x]
    /\ LET r == PushBack(heap, vec[x], item)
       IN Settle(r.heap, [vec EXCEPT ![x] = r.v], [Call1("PushBack", x) EXCEPT !.val = item])
    /\ UNCHANGED alive

\* pos = begin() + pos_index, a position within [begin(), end()]
CallInsert(x, pos_index, value) ==
    /\ alive[x]
    /\ pos_index \in 0..vec[x].size
    /\ LET r == Insert(heap, vec[x], pos_index, value)
       IN Settle(r.heap, [vec EXCEPT ![x] = r.v],
                 [Call1("Insert", x) EXCEPT !.idx = pos_index, !.val = value, !.it = r.it])
    /\ UNCHANGED alive

\* it = Insert(begin() + pos_index, value); Erase(it)
CallInsertErase(x, pos_index, value) ==
    /\ alive[x]
    /\ pos_index \in 0..vec[x].size
    /\ LET r == Insert(heap, vec[x], pos_index, value)
           e == Erase(r.heap, r.v, r.it.off)
       IN /\ r.it.blk = r.v.items
          /\ Settle(e.heap, [vec EXCEPT ![x] = e.v],
                    [Call1("InsertErase", x) EXCEPT !.idx = pos_index, !.val = value, !.it = r.it])
    /\ UNCHANGED alive

CallPopBack(x) ==
    /\ alive[x]
    /\ LET r == PopBack(heap, vec[x])
       IN Settle(r.heap, [vec EXCEPT ![x] = r.v], Call1("PopBack", x))
    /\ UNCHANGED alive

\* pos = begin() + pos_index, a position within [begin(), end()), or begin()
\* of an empty vector
CallErase(x, pos_index) ==
    /\ alive[x]
    /\ \/ pos_index \in 0..(vec[x].size - 1)
       \/ vec[x].size = 0 /\ pos_index = 0
    /\ LET r == Erase(heap, vec[x], pos_index)
       IN Settle(r.heap, [vec EXCEPT ![x] = r.v],
                 [Call1("Erase", x) EXCEPT !.idx = pos_index, !.it = r.it])
    /\ UNCHANGED alive

CallClear(x) ==
    /\ alive[x]
    /\ LET r == Clear(heap, vec[x])
       IN Settle(r.heap, [vec EXCEPT ![x] = r.v], Call1("Clear", x))
    /\ UNCHANGED alive

CallResize(x, new_size) ==
    /\ alive[x]
    /\ LET r == Resize(heap, vec[x], new_size)
       IN Settle(r.heap, [vec EXCEPT ![x] = r.v], [Call1("Resize", x) EXCEPT !.n = new_size])
    /\ UNCHANGED alive

CallAt(x, index) ==
    /\ alive[x]
    /\ LET r == At(heap, vec[x], index)
       IN Settle(heap, vec,
                 [Call1("At", x) EXCEPT !.idx = index, !.ret = r.ret, !.threw = r.threw])
    /\ UNCHANGED alive

\* v[index] = value, index < size
CallSetItem(x, index, value) ==
    /\ alive[x]
    /\ index \in 0..(vec[x].size - 1)
    /\ LET r == SetItem(heap, vec[x], index, value)
       IN Settle(r.heap, [vec EXCEPT ![x] = r.v],
                 [Call1("SetItem", x) EXCEPT !.idx = index, !.val = value])
    /\ UNCHANGED alive

CallSwap(x, y) ==
    /\ alive[x] /\ alive[y]
    /\ LET r == swap(heap, vec[x], vec[y])
       IN Settle(r.heap, Both(x, y, r), Call2("swap", x, y))
    /\ UNCHANGED alive

CallCopyAssign(x, y) ==
    /\ alive[x] /\ alive[y]
    /\ LET r == CopyAssign(heap, vec[x], vec[y], x = y)
       IN Settle(r.heap, Both(x, y, r), Call2("CopyAssign", x, y))
    /\ UNCHANGED alive

CallMoveAssign(x, y) ==
    /\ alive[x] /\ alive[y]
    /\ LET r == MoveAssign(heap, vec[x], vec[y], x = y)
       IN Settle(r.heap, Both(x, y, r), Call2("MoveAssign", x, y))
    /\ UNCHANGED alive

\* x == y, x != y, x < y, x <= y, x > y, x >= y
CallCompare(x, y) ==
    /\ alive[x] /\ alive[y]
    /\ Settle(heap, vec,
              [Call2("Compare", x, y) EXCEPT
                  !.cmp = [eq |-> Equal(heap, vec[x], vec[y]),
                           ne |-> NotEqual(heap, vec[x], vec[y]),
                           lt |-> Less(heap, vec[x], vec[y]),
                           le |-> LessEqual(heap, vec[x], vec[y]),
                           gt |-> Greater(heap, vec[x], vec[y]),
                           ge |-> GreaterEqual(heap, vec[x], vec[y])]])
    /\ UNCHANGED alive

\* ---- construction and destruction of the object named x ----
ConstructDefault(x) ==
    /\ ~alive[x]
    /\ LET r == CtorDefault(heap)
       IN Settle(r.heap, [vec EXCEPT ![x] = r.v], Call1("CtorDefault", x))
    /\ alive' = [alive EXCEPT ![x] = TRUE]

ConstructSize(x, size) ==
    /\ ~alive[x]
    /\ LET r == CtorSize(heap, size)
       IN Settle(r.heap, [vec EXCEPT ![x] = r.v], [Call1("CtorSize", x) EXCEPT !.n = size])
    /\ alive' = [alive EXCEPT ![x] = TRUE]

ConstructFill(x, size, value) ==
    /\ ~alive[x]
    /\ LET r == CtorFill(heap, size, value)
       IN Settle(r.heap, [vec EXCEPT ![x] = r.v],
                 [Call1("CtorFill", x) EXCEPT !.n = size, !.val = value])
    /\ alive' = [alive EXCEPT ![x] = TRUE]

ConstructList(x, init) ==
    /\ ~alive[x]
    /\ LET r == CtorList(heap, init)
       IN Settle(r.heap, [vec EXCEPT ![x] = r.v], [Call1("CtorList", x) EXCEPT !.n = Length(init)])
    /\ alive' = [alive EXCEPT ![x] = TRUE]

ConstructReserve(x, capacity_to_reserve) ==
    /\ ~alive[x]
    /\ LET r == CtorReserve(heap, capacity_to_reserve)
       IN Settle(r.heap, [vec EXCEPT ![x] = r.v],
                 [Call1("CtorReserve", x) EXCEPT !.n = capacity_to_reserve])
    /\ alive' = [alive EXCEPT ![x] = TRUE]

ConstructCopy(x, y) ==
    /\ ~alive[x] /\ alive[y]
    /\ LET r == CtorCopy(heap, vec[y])
       IN Settle(r.heap, [vec EXCEPT ![x] = r.v], Call2("CtorCopy", x, y))
    /\ alive' = [alive EXCEPT ![x] = TRUE]

ConstructMove(x, y) ==
    /\ ~alive[x] /\ alive[y]
    /\ LET r == CtorMove(heap, vec[y])
       IN Settle(r.heap, Both(x, y, r), Call2("CtorMove", x, y))
    /\ alive' = [alive EXCEPT ![x] = TRUE]

Destroy(x) ==
    /\ alive[x]
    /\ Settle(Dtor(heap, vec[x]), [vec EXCEPT ![x] = EmptyVector], Call1("Dtor", x))
    /\ alive' = [alive EXCEPT ![x] = FALSE]

\* ---- calls in which an allocation fails ----
CallReserveBadAlloc(x, capacity) ==
    /\ alive[x]
    /\ LET r == ReserveBadAlloc(heap, vec[x], capacity)
       IN /\ r.out # ""
          /\ Settle(r.heap, [vec EXCEPT ![x] = r.v],
                    [Call1("Reserve", x) EXCEPT !.n = capacity, !.out = r.out])
    /\ UNCHANGED alive

CallPushBackBadAlloc(x, item) ==
    /\ alive[x]
    /\ LET r == PushBackBadAlloc(heap, vec[x], item)
       IN /\ r.out # ""
          /\ Settle(r.heap, [vec EXCEPT ![x] = r.v],
                    [Call1("PushBack", x) EXCEPT !.val = item, !.out = r.out])
    /\ UNCHANGED alive

CallInsertBadAlloc(x, pos_index, value) ==
    /\ alive[x]
    /\ pos_index \in 0..vec[x].size
    /\ LET r == InsertBadAlloc(heap, vec[x], pos_index, value)
       IN /\ r.out # ""
          /\ Settle(r.heap, [vec EXCEPT ![x] = r.v],
                    [Call1("Insert", x) EXCEPT !.idx = pos_index, !.val = value, !.out = r.out])
    /\ UNCHANGED alive

CallResizeBadAlloc(x, new_size) ==
    /\ alive[x]
    /\ LET r == ResizeBadAlloc(heap, vec[x], new_size)
       IN /\ r.out # ""
          /\ Settle(r.heap, [vec EXCEPT ![x] = r.v],
                    [Call1("Resize", x) EXCEPT !.n = new_size, !.out = r.out])
    /\ UNCHANGED alive

\* k tells which allocation of the copy fails
CallCopyAssignBadAlloc(x, y, k) ==
    /\ alive[x] /\ alive[y]
    /\ LET r == CopyAssignBadAlloc(heap, vec[x], vec[y], x = y, k)
       IN /\ r.out # ""
          /\ Settle(r.heap, [vec EXCEPT ![x] = r.v],
                    [Call2("CopyAssign", x, y) EXCEPT !.n = k, !.threw = TRUE, !.out = r.out])
    /\ UNCHANGED alive

\* ---- bare ArrayPtr objects p and q, and the caller that holds the raw
\* ---- pointers Release returned ----
PtrCall(op, o, other) == [NoCall EXCEPT !.op = op, !.tgt = o, !.src = other]

\* ArrayPtr o(size)
PtrConstruct(o, size) ==
    /\ ~own.aborted /\ ~own.alive[o]
    /\ \E b \in Blocks : ~heap[b].live
    /\ LET r == ArrayPtrSize(heap, size)
       IN /\ heap' = r.heap
          /\ own' = [own EXCEPT !.raw_ptr[o] = r.ptr, !.alive[o] = TRUE,
                                !.how = [b \in Blocks |-> IF b = r.ptr THEN "" ELSE @[b]]]
    /\ last' = [PtrCall("ArrayPtrSize", o, "") EXCEPT !.n = size]
    /\ UNCHANGED <<vec, alive, tally>>

\* ArrayPtr o(raw_ptr), raw_ptr null or a pointer the caller holds and gives up
PtrConstructRaw(o, raw_ptr) ==
    /\ ~own.aborted /\ ~own.alive[o]
    /\ raw_ptr \in own.held \cup {Null}
    /\ own' = [own EXCEPT !.raw_ptr[o] = raw_ptr, !.alive[o] = TRUE, !.held = @ \ {raw_ptr}]
    /\ last' = PtrCall("ArrayPtrRaw", o, "")
    /\ UNCHANGED <<heap, vec, alive, tally>>

\* ArrayPtr o(std::move(other))
PtrConstructMove(o, other) ==
    /\ ~own.aborted /\ ~own.alive[o] /\ own.alive[other]
    /\ LET r == ArrayPtrMove(own.raw_ptr[other])
       IN own' = [own EXCEPT !.raw_ptr[o] = r.ptr, !.raw_ptr[other] = r.o, !.alive[o] = TRUE]
    /\ last' = PtrCall("ArrayPtrMove", o, other)
    /\ UNCHANGED <<heap, vec, alive, tally>>

\* o = std::move(other)
PtrMoveAssign(o, other, freed) ==
    /\ ~own.aborted /\ own.alive[o] /\ own.alive[other]
    /\ LET r == ArrayPtrMoveAssign(heap, own.raw_ptr[o], own.raw_ptr[other], o = other, freed)
       IN /\ heap' = r.heap
          /\ own' = [own EXCEPT
                         !.raw_ptr = [z \in Ptrs |-> IF z = o THEN r.ptr
                                                    ELSE IF z = other THEN r.o ELSE @[z]],
                         !.how = [b \in Blocks |->
                                     IF b = own.raw_ptr[o] /\ r.how # "" THEN r.how ELSE @[b]],
                         !.aborted = r.aborted]
    /\ last' = PtrCall("ArrayPtrMoveAssign", o, other)
    /\ UNCHANGED <<vec, alive, tally>>

\* o.swap(other)
PtrSwap(o, other) ==
    /\ ~own.aborted /\ own.alive[o] /\ own.alive[other]
    /\ LET r == ArrayPtrSwap(own.raw_ptr[o], own.raw_ptr[other])
       IN own' = [own EXCEPT !.raw_ptr = [z \in Ptrs |-> IF z = o THEN r.ptr
                                                        ELSE IF z = other THEN r.o ELSE @[z]]]
    /\ last' = PtrCall("ArrayPtrSwap", o, other)
    /\ UNCHANGED <<heap, vec, alive, tally>>

\* Type* raw = o.Release()
PtrRelease(o) ==
    /\ ~own.aborted /\ own.alive[o]
    /\ LET r == Release(own.raw_ptr[o])
       IN own' = [own EXCEPT !.raw_ptr[o] = r.ptr, !.held = @ \cup ({r.ret} \ {Null})]
    /\ last' = PtrCall("Release", o, "")
    /\ UNCHANGED <<heap, vec, alive, tally>>

\* ~ArrayPtr() of o
PtrDestroy(o) ==
    /\ ~own.aborted /\ own.alive[o]
    /\ heap' = ArrayPtrDtor(heap, own.raw_ptr[o])
    /\ own' = [own EXCEPT !.raw_ptr[o] = Null, !.alive[o] = FALSE,
                          !.how = [b \in Blocks |-> IF b = own.raw_ptr[o] THEN "delete[]" ELSE @[b]]]
    /\ last' = PtrCall("ArrayPtrDtor", o, "")
    /\ UNCHANGED <<vec, alive, tally>>

\* the caller's delete[] of a raw pointer it holds
CallerDeletes(raw_ptr) ==
    /\ ~own.aborted
    /\ raw_ptr \in own.held
    /\ heap' = [heap EXCEPT ![raw_ptr] = FreeBlock]
    /\ own' = [own EXCEPT !.held = @ \ {raw_ptr}, !.how[raw_ptr] = "caller"]
    /\ last' = PtrCall("delete[]", "", "")
    /\ UNCHANGED <<vec, alive, tally>>

\* ---- specifications ----
SeqsUpTo(S, n) == UNION {[1..k -> S] : k \in 0..n}

\* the objects a constructor that takes no other vector can build
Constructed(lim, V) ==
    {[op |-> "CtorDefault", n |-> -1, val |-> -1, r |-> CtorDefault(EmptyHeap)]}
    \cup {[op |-> "CtorSize", n |-> n, val |-> -1, r |-> CtorSize(EmptyHeap, n)] : n \in 0..lim}
    \cup {[op |-> "CtorFill", n |-> n, val |-> v, r |-> CtorFill(EmptyHeap, n, v)] :
             n \in 0..lim, v \in V}
    \cup {[op |-> "CtorList", n |-> Length(init), val |-> -1, r |-> CtorList(EmptyHeap, init)] :
             init \in SeqsUpTo(V, lim)}
    \cup {[op |-> "CtorReserve", n |-> n, val |-> -1, r |-> CtorReserve(EmptyHeap, n)] :
             n \in 0..lim}

\* "a" has just been constructed, "b" does not exist yet
InitWith(lim, V) ==
    \E c \in Constructed(lim, V) :
        /\ heap = c.r.heap
        /\ vec = [z \in Vecs |-> IF z = "a" THEN c.r.v ELSE EmptyVector]
        /\ alive = [z \in Vecs |-> z = "a"]
        /\ last = [NoCall EXCEPT !.op = c.op, !.tgt = "a", !.n = c.n, !.val = c.val]
        /\ tally = [z \in Vecs |-> NoTally]
        /\ own = NoPtrs

\* no capacity beyond lim after the step
Fits(lim) == \A z \in Vecs : vec'[z].capacity <= lim

\* one vector
Init == InitWith(MaxCap, Values)

Next ==
    \/ \E n \in 0..MaxCap : CallReserve("a", n)
    \/ \E v \in Values : CallPushBack("a", v) /\ Fits(MaxCap)
    \/ \E i \in 0..MaxCap, v \in Values : CallInsert("a", i, v) /\ Fits(MaxCap)
    \/ CallPopBack("a")
    \/ \E i \in 0..MaxCap : CallErase("a", i)
    \/ CallClear("a")
    \/ \E n \in 0..MaxCap : CallResize("a", n) /\ Fits(MaxCap)
    \/ \E i \in 0..(MaxCap + 1) : CallAt("a", i)
    \/ \E i \in 0..MaxCap, v \in Values : CallSetItem("a", i, v)
    \/ \E i \in 0..MaxCap, v \in Values : CallInsertErase("a", i, v) /\ Fits(MaxCap)

Spec == Init /\ [][Next]_vars

\* two vectors
InitPair == InitWith(MaxPairCap, PairValues)

NextPair ==
    \/ \E x \in Vecs, n \in 0..MaxPairCap : CallReserve(x, n)
    \/ \E x \in Vecs, v \in PairValues : CallPushBack(x, v) /\ Fits(MaxPairCap)
    \/ \E x \in Vecs, i \in 0..MaxPairCap, v \in PairValues : CallInsert(x, i, v) /\ Fits(MaxPairCap)
    \/ \E x \in Vecs : CallPopBack(x)
    \/ \E x \in Vecs, i \in 0..MaxPairCap : CallErase(x, i)
    \/ \E x \in Vecs : CallClear(x)
    \/ \E x \in Vecs, n \in 0..MaxPairCap : CallResize(x, n) /\ Fits(MaxPairCap)
    \/ \E x \in Vecs, i \in 0..MaxPairCap, v \in PairValues : CallSetItem(x, i, v)
    \/ \E x \in Vecs, y \in Vecs : CallSwap(x, y)
    \/ \E x \in Vecs, y \in Vecs : CallCopyAssign(x, y)
    \/ \E x \in Vecs, y \in Vecs : CallMoveAssign(x, y)
    \/ \E x \in Vecs, y \in Vecs : CallCompare(x, y)
    \/ \E x \in Vecs : ConstructDefault(x)
    \/ \E x \in Vecs, n \in 0..MaxPairCap : ConstructSize(x, n)
    \/ \E x \in Vecs, n \in 0..MaxPairCap, v \in PairValues : ConstructFill(x, n, v)
    \/ \E x \in Vecs, init \in SeqsUpTo(PairValues, MaxPairCap) : ConstructList(x, init)
    \/ \E x \in Vecs, n \in 0..MaxPairCap : ConstructReserve(x, n)
    \/ \E x \in Vecs, y \in Vecs : ConstructCopy(x, y)
    \/ \E x \in Vecs, y \in Vecs : ConstructMove(x, y)
    \/ \E x \in Vecs : Destroy(x)

SpecPair == InitPair /\ [][NextPair]_vars

\* one vector, empty at first, under the calls that add and remove elements
InitTally ==
    /\ heap = EmptyHeap
    /\ vec = [z \in Vecs |-> EmptyVector]
    /\ alive = [z \in Vecs |-> z = "a"]
    /\ last = [NoCall EXCEPT !.op = "CtorDefault", !.tgt = "a"]
    /\ tally = [z \in Vecs |-> IF z = "a" THEN [on |-> TRUE, n |-> 0] ELSE NoTally]
    /\ own = NoPtrs

NextTally ==
    \/ \E v \in Values : CallPushBack("a", v) /\ Fits(MaxCap)
    \/ \E i \in 0..MaxCap, v \in Values : CallInsert("a", i, v) /\ Fits(MaxCap)
    \/ CallPopBack("a")
    \/ \E i \in 0..MaxCap : CallErase("a", i)
    \/ CallClear("a")

SpecTally == InitTally /\ [][NextTally]_vars

\* two vectors under the calls that allocate, each of which may fail
NextAlloc ==
    \/ \E x \in Vecs, n \in 0..MaxPairCap : CallReserve(x, n)
    \/ \E x \in Vecs, v \in PairValues : CallPushBack(x, v) /\ Fits(MaxPairCap)
    \/ \E x \in Vecs, i \in 0..MaxPairCap, v \in PairValues : CallInsert(x, i, v) /\ Fits(MaxPairCap)
    \/ \E x \in Vecs, n \in 0..MaxPairCap : CallResize(x, n) /\ Fits(MaxPairCap)
    \/ \E x \in Vecs : CallPopBack(x)
    \/ \E x \in Vecs, y \in Vecs : CallCopyAssign(x, y)
    \/ \E x \in Vecs, init \in SeqsUpTo(PairValues, MaxPairCap) : ConstructList(x, init)
    \/ \E x \in Vecs, n \in 0..MaxPairCap : CallReserveBadAlloc(x, n)
    \/ \E x \in Vecs, v \in PairValues : CallPushBackBadAlloc(x, v)
    \/ \E x \in Vecs, i \in 0..MaxPairCap, v \in PairValues : CallInsertBadAlloc(x, i, v)
    \/ \E x \in Vecs, n \in 0..MaxPairCap : CallResizeBadAlloc(x, n)
    \/ \E x \in Vecs, y \in Vecs, k \in 1..2 : CallCopyAssignBadAlloc(x, y, k)

SpecAlloc == InitPair /\ [][NextAlloc]_vars

\* bare ArrayPtr objects
InitPtr ==
    /\ heap = EmptyHeap
    /\ vec = [z \in Vecs |-> EmptyVector]
    /\ alive = [z \in Vecs |-> FALSE]
    /\ last = NoCall
    /\ tally = [z \in Vecs |-> NoTally]
    /\ own = NoPtrs

NextPtr ==
    \/ \E o \in Ptrs, size \in 0..MaxPtrLen : PtrConstruct(o, size)
    \/ \E o \in Ptrs, raw_ptr \in Blocks \cup {Null} : PtrConstructRaw(o, raw_ptr)
    \/ \E o \in Ptrs, other \in Ptrs : PtrConstructMove(o, other)
    \/ \E o \in Ptrs, other \in Ptrs, freed \in BOOLEAN : PtrMoveAssign(o, other, freed)
    \/ \E o \in Ptrs, other \in Ptrs : PtrSwap(o, other)
    \/ \E o \in Ptrs : PtrRelease(o)
    \/ \E o \in Ptrs : PtrDestroy(o)
    \/ \E raw_ptr \in Blocks : CallerDeletes(raw_ptr)

SpecPtr == InitPtr /\ [][NextPtr]_vars

\* ---- what the claims speak of ----
\* the elements of x now, and before the last call
Elems(x) == Contents(heap, vec[x])

PreElems(x) == [k \in 1..last.pre[x].size |-> last.pre[x].cells[k]]

\* s with v placed before its element of 0-based index i
Inserted(s, i, v) ==
    [k \in 1..(Length(s) + 1) |-> IF k <= i THEN s[k] ELSE IF k = i + 1 THEN v ELSE s[k - 1]]

\* s without its element of 0-based index i
Erased(s, i) == [k \in 1..(Length(s) - 1) |-> IF k <= i THEN s[k] ELSE s[k + 1]]

Min(x, y) == IF x < y THEN x ELSE y

\* C1: every vector has 0 <= size <= capacity, whatever constructor built it
\* and whatever calls followed.
SizeWithinCapacity ==
    \A x \in Vecs : 0 <= vec[x].size /\ vec[x].size <= vec[x].capacity

\* a copy-assignment from a source whose size differs from its capacity, onto
\* a non-empty target
SizeWithinCapacityReached ==
    /\ last.op = "CopyAssign"
    /\ last.src # last.tgt
    /\ last.pre[last.src].size > 0
    /\ last.pre[last.src].size < last.pre[last.src].capacity
    /\ last.pre[last.tgt].size > 0

\* C2: PushBack or Insert on a full vector makes the capacity max(1, 2 * old
\* capacity); on a vector that is not full it leaves the capacity as it was.
GrowthLaw ==
    last.op \in {"PushBack", "Insert"} =>
        vec[last.tgt].capacity =
            IF last.pre[last.tgt].size = last.pre[last.tgt].capacity
            THEN Max(1, 2 * last.pre[last.tgt].capacity)
            ELSE last.pre[last.tgt].capacity

\* the push that takes the capacity from 2 to 4
GrowthLawReached ==
    /\ last.op = "PushBack"
    /\ last.pre[last.tgt].size = 2
    /\ last.pre[last.tgt].capacity = 2
    /\ vec[last.tgt].capacity = 4

\* C3: Insert(begin() + i, v) on contents s gives s[0..i) ++ [v] ++ s[i..n),
\* size n + 1, and returns the position of index i in the storage the vector
\* now has, where v is.
InsertPlaces ==
    last.op = "Insert" =>
        /\ Elems(last.tgt) = Inserted(PreElems(last.tgt), last.idx, last.val)
        /\ vec[last.tgt].size = last.pre[last.tgt].size + 1
        /\ last.it = [blk |-> vec[last.tgt].items, off |-> last.idx]
        /\ heap[last.it.blk].live
        /\ heap[last.it.blk].cells[last.it.off + 1] = last.val

\* an insertion into the middle of a full vector of distinct elements
InsertPlacesReached ==
    /\ last.op = "Insert"
    /\ last.pre[last.tgt].size = last.pre[last.tgt].capacity
    /\ last.pre[last.tgt].size >= 2
    /\ last.idx > 0
    /\ last.idx < last.pre[last.tgt].size
    /\ PreElems(last.tgt)[1] # PreElems(last.tgt)[2]

\* C4: Erase(begin() + i) on non-empty contents s, i < n, gives
\* s[0..i) ++ s[i+1..n), size n - 1, the capacity unchanged, and returns the
\* position of index i: the element formerly at i + 1, or end().
EraseCloses ==
    (last.op = "Erase" /\ last.pre[last.tgt].size > 0) =>
        /\ Elems(last.tgt) = Erased(PreElems(last.tgt), last.idx)
        /\ vec[last.tgt].size = last.pre[last.tgt].size - 1
        /\ vec[last.tgt].capacity = last.pre[last.tgt].capacity
        /\ last.it = [blk |-> vec[last.tgt].items, off |-> last.idx]
        /\ IF last.idx = last.pre[last.tgt].size - 1
           THEN last.it = End(vec[last.tgt])
           ELSE heap[last.it.blk].cells[last.it.off + 1] = PreElems(last.tgt)[last.idx + 2]

\* an erasure that is followed by two elements that differ
EraseClosesReached ==
    /\ last.op = "Erase"
    /\ last.pre[last.tgt].size >= 3
    /\ last.idx + 2 < last.pre[last.tgt].size
    /\ PreElems(last.tgt)[last.idx + 2] # PreElems(last.tgt)[last.idx + 3]

\* C5: after Resize(n) on contents s of size m the size is n, the first
\* min(m, n) elements are those of s and the elements at [m, n) are Type().
ResizeDefaults ==
    last.op = "Resize" =>
        /\ vec[last.tgt].size = last.n
        /\ \A k \in 1..Min(last.pre[last.tgt].size, last.n) :
               Elems(last.tgt)[k] = PreElems(last.tgt)[k]
        /\ \A k \in (last.pre[last.tgt].size + 1)..last.n :
               Elems(last.tgt)[k] = Default

\* a Resize within the capacity over a slot that an earlier removal left
\* with a value other than Type()
ResizeDefaultsReached ==
    /\ last.op = "Resize"
    /\ last.n <= last.pre[last.tgt].capacity
    /\ \E k \in (last.pre[last.tgt].size + 1)..last.n : last.pre[last.tgt].cells[k] # Default

\* C6: At(index) throws exactly when index >= size, and otherwise gives the
\* element at index; when it throws the vector is as it was.
AtBounds ==
    last.op = "At" =>
        /\ last.threw <=> last.idx >= vec[last.tgt].size
        /\ ~last.threw => last.ret = Elems(last.tgt)[last.idx + 1]
        /\ last.threw => Snapshot(heap, vec[last.tgt]) = last.pre[last.tgt]

\* At(size) on a non-empty vector
AtBoundsReached ==
    /\ last.op = "At"
    /\ last.threw
    /\ vec[last.tgt].size > 0
    /\ last.idx = vec[last.tgt].size

\* C7: after the move-construction of b from a, or b = move(a) with a and b
\* distinct, a has size 0, capacity 0 and no allocation, and b has the size,
\* capacity and elements a had.
MoveEmptiesSource ==
    (last.op \in {"CtorMove", "MoveAssign"} /\ last.src # last.tgt) =>
        /\ vec[last.src] = EmptyVector
        /\ vec[last.tgt].size = last.pre[last.src].size
        /\ vec[last.tgt].capacity = last.pre[last.src].capacity
        /\ Elems(last.tgt) = PreElems(last.src)
        /\ Snapshot(heap, vec[last.tgt]) = last.pre[last.src]

\* a move-assignment of a non-empty source with spare capacity onto a
\* non-empty target
MoveEmptiesSourceReached ==
    /\ last.op = "MoveAssign"
    /\ last.src # last.tgt
    /\ last.pre[last.tgt].size > 0
    /\ last.pre[last.src].size > 0
    /\ last.pre[last.src].size < last.pre[last.src].capacity

\* C8: Reserve(n) makes the capacity n when n exceeds it and changes nothing
\* otherwise; the size and the elements stay.
ReserveExact ==
    last.op = "Reserve" =>
        /\ vec[last.tgt].capacity =
               IF last.n > last.pre[last.tgt].capacity
               THEN last.n
               ELSE last.pre[last.tgt].capacity
        /\ last.n <= last.pre[last.tgt].capacity =>
               Snapshot(heap, vec[last.tgt]) = last.pre[last.tgt]
        /\ vec[last.tgt].size = last.pre[last.tgt].size
        /\ Elems(last.tgt) = PreElems(last.tgt)

\* a Reserve of a non-empty vector to more than its capacity and less than
\* twice its capacity
ReserveExactReached ==
    /\ last.op = "Reserve"
    /\ last.pre[last.tgt].size > 0
    /\ last.n > last.pre[last.tgt].capacity
    /\ last.n < 2 * last.pre[last.tgt].capacity

\* C9: Resize(n) makes the capacity max(n, 2 * old capacity) when n exceeds
\* the capacity and leaves it otherwise.
ResizeCapacity ==
    last.op = "Resize" =>
        vec[last.tgt].capacity =
            IF last.n > last.pre[last.tgt].capacity
            THEN Max(last.n, 2 * last.pre[last.tgt].capacity)
            ELSE last.pre[last.tgt].capacity

\* a Resize beyond the capacity to less than twice the capacity
ResizeCapacityReached ==
    /\ last.op = "Resize"
    /\ last.n > last.pre[last.tgt].capacity
    /\ last.n < 2 * last.pre[last.tgt].capacity

\* C10: a copy (constructed or assigned) has the size and elements of its
\* source and leaves the source as it was; two vectors never own the same
\* allocation, and a call that changes one vector leaves the size and the
\* slots of the other as they were.
CopyIsDeep ==
    /\ (last.op \in {"CtorCopy", "CopyAssign"} /\ last.src # last.tgt) =>
           /\ vec[last.tgt].size = vec[last.src].size
           /\ Elems(last.tgt) = Elems(last.src)
           /\ Snapshot(heap, vec[last.src]) = last.pre[last.src]
    /\ \A x \in Vecs, y \in Vecs :
           (x # y /\ vec[x].items # Null) => vec[x].items # vec[y].items
    /\ last.op \in {"Reserve", "PushBack", "Insert", "PopBack", "Erase", "Clear",
                    "Resize", "SetItem"} =>
           \A z \in Vecs \ {last.tgt} : Snapshot(heap, vec[z]) = last.pre[z]

\* a write to an element of one of two vectors that hold the same elements
\* in different allocations
CopyIsDeepReached ==
    /\ last.op = "SetItem"
    /\ \A z \in Vecs : alive[z] /\ vec[z].size = 2
    /\ PreElems("a") = PreElems("b")
    /\ Elems("a") # Elems("b")

\* C11: a == b exactly when the sizes are equal and the elements at every
\* index below the size are equal; a < b exactly when a comes first in
\* lexicographic order, a proper prefix being smaller; the other four
\* operators are the derived relations and exactly one of <, ==, > holds.
\* Slots at or beyond the size take no part: the right-hand sides read the
\* elements only.
SameElems(s, t) == Length(s) = Length(t) /\ \A k \in 1..Length(s) : s[k] = t[k]

Precedes(s, t) ==
    \E k \in 1..(Length(s) + 1) :
        /\ k <= Length(t)
        /\ \A j \in 1..(k - 1) : s[j] = t[j]
        /\ k <= Length(s) => s[k] < t[k]

ComparisonsAgree ==
    last.op = "Compare" =>
        /\ last.cmp.eq <=> SameElems(Elems(last.tgt), Elems(last.src))
        /\ last.cmp.lt <=> Precedes(Elems(last.tgt), Elems(last.src))
        /\ last.cmp.gt <=> Precedes(Elems(last.src), Elems(last.tgt))
        /\ last.cmp.ne <=> ~last.cmp.eq
        /\ last.cmp.le <=> (last.cmp.lt \/ last.cmp.eq)
        /\ last.cmp.ge <=> (last.cmp.gt \/ last.cmp.eq)
        /\ Cardinality({r \in {"lt", "eq", "gt"} : last.cmp[r]}) = 1

\* a proper prefix compared with a longer vector, the two differing in
\* capacity and in what lies beyond the size of the shorter one
ComparisonsAgreeReached ==
    /\ last.op = "Compare"
    /\ last.cmp.lt
    /\ vec[last.tgt].size > 0
    /\ vec[last.tgt].size < vec[last.src].size
    /\ vec[last.tgt].size < vec[last.tgt].capacity
    /\ heap[vec[last.tgt].items].cells[vec[last.tgt].size + 1] # Default

\* C12: on a vector that was empty at first and has been changed by
\* PushBack, Insert, PopBack, Erase and Clear only, the size is the number of
\* elements added less the number removed.
SizeIsTally ==
    \A z \in Vecs : tally[z].on => vec[z].size = tally[z].n

\* an Erase from a vector of three elements or more
SizeIsTallyReached ==
    /\ last.op = "Erase"
    /\ tally[last.tgt].on
    /\ last.pre[last.tgt].size >= 3

\* C13: an Insert followed at once by an Erase at the iterator the Insert
\* returned leaves the elements and the size as they were before the Insert,
\* whether or not the Insert reallocated.
InsertThenEraseRestores ==
    last.op = "InsertErase" =>
        /\ vec[last.tgt].size = last.pre[last.tgt].size
        /\ Elems(last.tgt) = PreElems(last.tgt)
        /\ last.it = [blk |-> vec[last.tgt].items, off |-> last.idx]

\* the Insert reallocated a vector of two elements or more, not all alike,
\* and placed the value between them
InsertThenEraseRestoresReached ==
    /\ last.op = "InsertErase"
    /\ vec[last.tgt].capacity > last.pre[last.tgt].capacity
    /\ last.pre[last.tgt].size >= 2
    /\ last.idx > 0
    /\ last.idx < last.pre[last.tgt].size
    /\ \E j, k \in 1..vec[last.tgt].size : Elems(last.tgt)[j] # Elems(last.tgt)[k]

\* C14: PopBack, Clear and Erase(begin()) on an empty vector change nothing
\* and signal no error: the size stays 0, the capacity and the block stay as
\* they were, and Erase returns begin().
RemovalOnEmptyIsNoOp ==
    (last.op \in {"PopBack", "Clear", "Erase"} /\ last.pre[last.tgt].size = 0) =>
        /\ vec[last.tgt].size = 0
        /\ vec[last.tgt].capacity = last.pre[last.tgt].capacity
        /\ Snapshot(heap, vec[last.tgt]) = last.pre[last.tgt]
        /\ ~last.threw
        /\ last.op = "Erase" => last.it = Begin(vec[last.tgt])

\* an Erase at begin() of an empty vector that owns a block
RemovalOnEmptyIsNoOpReached ==
    /\ last.op = "Erase"
    /\ last.pre[last.tgt].size = 0
    /\ last.idx = 0
    /\ vec[last.tgt].capacity > 0

\* C15: no call of Reserve, PushBack, Insert, PopBack, Erase, Clear or Resize
\* lowers the capacity, and Clear, PopBack and Erase leave the capacity and
\* the allocated block as they were.
CapacityNeverDecreases ==
    /\ last.op \in {"Reserve", "PushBack", "Insert", "PopBack", "Erase", "Clear", "Resize"} =>
           vec[last.tgt].capacity >= last.pre[last.tgt].capacity
    /\ last.op \in {"Clear", "PopBack", "Erase"} =>
           /\ vec[last.tgt].capacity = last.pre[last.tgt].capacity
           /\ last.kept[last.tgt]
           /\ vec[last.tgt].items # Null =>
                  /\ heap[vec[last.tgt].items].live
                  /\ Length(heap[vec[last.tgt].items].cells) = Length(last.pre[last.tgt].cells)

\* a Clear of a vector that held elements
CapacityNeverDecreasesReached ==
    /\ last.op = "Clear"
    /\ last.pre[last.tgt].size > 1
    /\ vec[last.tgt].capacity > last.pre[last.tgt].size

\* C16: when an allocation fails in Reserve, PushBack, Insert, Resize or
\* copy-assignment, every vector has the size, the capacity and the elements
\* it had before the call.
AllocationFailureChangesNothing ==
    last.out # "" =>
        \A z \in Vecs :
            /\ vec[z].size = last.pre[z].size
            /\ vec[z].capacity = last.pre[z].capacity
            /\ Elems(z) = PreElems(z)

\* the second allocation of a copy-assignment failed, onto a target that
\* held elements other than those of the source
AllocationFailureChangesNothingReached ==
    /\ last.op = "CopyAssign"
    /\ last.out = "bad_alloc"
    /\ last.n = 2
    /\ vec[last.tgt].size > 0
    /\ vec[last.tgt].size < vec[last.tgt].capacity
    /\ ~SameElems(Elems(last.tgt), Elems(last.src))

\* the slots of x at [size, capacity) all hold Type()
SpareDefault(x) ==
    \A i \in (vec[x].size + 1)..vec[x].capacity : heap[vec[x].items].cells[i] = Default

\* C17, as stated: in every reachable state every slot at [size, capacity)
\* holds the default value, also after PopBack, Erase, Clear or a shrinking
\* Resize that removed other values.
NoStaleSlots == \A x \in Vecs : SpareDefault(x)

\* C17, amended: every slot at [size, capacity) holds the default value right
\* after a constructor that takes no other vector, and right after a Reserve,
\* PushBack, Insert or Resize that moved the elements to a new block.
SpareDefaultWhenFresh ==
    \/ last.op \in {"CtorDefault", "CtorSize", "CtorFill", "CtorList", "CtorReserve"}
    \/ last.op \in {"Reserve", "PushBack", "Insert", "Resize"} /\ ~last.kept[last.tgt]
    => SpareDefault(last.tgt)

\* a Reserve moved the elements out of a block that held another value
\* beyond its size
SpareDefaultWhenFreshReached ==
    /\ last.op = "Reserve"
    /\ ~last.kept[last.tgt]
    /\ vec[last.tgt].size > 0
    /\ \E i \in (last.pre[last.tgt].size + 1)..last.pre[last.tgt].capacity :
           last.pre[last.tgt].cells[i] # Default

\* C18: each block is owned by at most one ArrayPtr, a moved-from or released
\* ArrayPtr is null, a block whose owner is destroyed or overwritten by
\* move-assignment is deallocated once and as a whole array (delete[]), no
\* block is left without an owner, and a block handed out by Release stays
\* allocated until the caller deallocates it.
ArrayPtrOwnsExclusively ==
    /\ \A o, z \in Ptrs :
           (o # z /\ own.alive[o] /\ own.alive[z] /\ own.raw_ptr[o] # Null) =>
               own.raw_ptr[o] # own.raw_ptr[z]
    /\ \A o \in Ptrs : own.raw_ptr[o] # Null => own.raw_ptr[o] \notin own.held
    /\ last.op \in {"ArrayPtrMove", "ArrayPtrMoveAssign"} /\ last.tgt # last.src =>
           own.raw_ptr[last.src] = Null
    /\ last.op = "Release" => own.raw_ptr[last.tgt] = Null
    /\ \A o \in Ptrs : own.raw_ptr[o] # Null => heap[own.raw_ptr[o]].live
    /\ \A b \in own.held : heap[b].live
    /\ \A b \in Blocks :
           heap[b].live => b \in own.held \/ \E o \in Ptrs : own.alive[o] /\ own.raw_ptr[o] = b
    /\ \A b \in Blocks : own.how[b] \in {"", "delete[]", "caller"}
    /\ ~own.aborted

\* C19: between calls, the capacity of every vector is the length of the
\* block it owns, and the capacity is 0 exactly when it owns no block.
CapacityIsBlockLength ==
    \A x \in Vecs :
        /\ vec[x].capacity = 0 <=> vec[x].items = Null
        /\ vec[x].items # Null =>
               /\ heap[vec[x].items].live
               /\ Length(heap[vec[x].items].cells) = vec[x].capacity

\* a copy of a source that held elements and whose size was below its
\* capacity
CapacityIsBlockLengthReached ==
    /\ last.op = "CtorCopy"
    /\ last.pre[last.src].size > 0
    /\ last.pre[last.src].size < last.pre[last.src].capacity
    /\ vec[last.tgt].items # Null

\* C20: a vector built by the copy constructor, by copy-assignment from
\* another vector or from an initializer list has the capacity of the source's
\* size; a copy- or move-assignment of a vector to itself leaves its size,
\* capacity and elements as they were.
CopyTakesSizeAsCapacity ==
    /\ last.op \in {"CtorCopy", "CopyAssign"} /\ last.tgt # last.src =>
           /\ vec[last.tgt].capacity = last.pre[last.src].size
           /\ vec[last.tgt].size = last.pre[last.src].size
    /\ last.op = "CtorList" => vec[last.tgt].capacity = last.n
    /\ last.op \in {"CopyAssign", "MoveAssign"} /\ last.tgt = last.src =>
           /\ vec[last.tgt].size = last.pre[last.tgt].size
           /\ vec[last.tgt].capacity = last.pre[last.tgt].capacity
           /\ Elems(last.tgt) = PreElems(last.tgt)

\* a copy-assignment that lowered the capacity of the target
CopyTakesSizeAsCapacityReached ==
    /\ last.op = "CopyAssign"
    /\ last.tgt # last.src
    /\ last.out = ""
    /\ last.pre[last.src].size > 0
    /\ last.pre[last.src].size < last.pre[last.src].capacity
    /\ vec[last.tgt].capacity < last.pre[last.tgt].capacity

====
